---- MODULE Spec2Model ----
(***************************************************************************)
(* A model of the list functions of github.go: listCommits, listForkers,   *)
(* listWatchers, listIssues and listStargazers.  One run of one function   *)
(* is modelled, step by step: the entry code, each page fetch, each        *)
(* iteration of the range loop over the page, and the test of              *)
(* resp.NextPage after it.  The remote (the GitHub API behind              *)
(* client.Repositories, client.Activity, client.Issues and client.Users)   *)
(* is the environment: every call either fails or answers, and a listing   *)
(* call answers with any page of items and any NextPage cursor.            *)
(***************************************************************************)
EXTENDS Integers, Sequences, FiniteSets, TLC

\* ------------------------------------------------------------- bounds
MaxItems == 3   \* items the remote serves in one run, over all pages
MaxPage  == 3   \* largest page number (cursor) the remote names
MaxId    == 2   \* user IDs are 1..MaxId
MaxTime  == 3   \* timestamps and dates are the days 1..MaxTime
MaxFile  == 5   \* characters in the user-list file
MaxRepos == 3   \* repositories handed to printRepos
MaxName  == 2   \* letters in a repository name, and letters of the alphabet

VARIABLES
    fn,            \* the function that runs
    cfg,           \* cfg.StartDate, cfg.EndDate
    onlyID,        \* listStargazers' parameter
    pc,            \* "entry" | "fetch" | "range" | "collect" | "read" | "done" |
                   \* "printed" | "panic"
    opt,           \* opt.Page: the page the next listing call asks for
    useTimeFilter, \* local of listForkers, listStargazers
    start, end,    \* parsed dates
    page,          \* the items of the page being ranged over
    idx,           \* position of the range loop in page (1-based)
    resp,          \* resp.NextPage of the page being ranged over
    users,         \* the slice users (allUsers in listWatchers)
    times,         \* the slice times
    userCache,     \* listIssues: the set of keys of userCache
    userMap,       \* listCommits: the map users, from *int keys to users
    ret,           \* what the function returned
    served,        \* history: the listing calls made and their answers
    lookups,       \* history: the Users.GetByID calls made and their answers
    file,          \* listUsers: the characters of the file
    br,            \* listUsers: the position of the reader br in the file
    repoNames,     \* printRepos: *repo.Name of the repositories handed in
    content        \* the printers: what was logged

vars == <<fn, cfg, onlyID, pc, opt, useTimeFilter, start, end, page, idx, resp,
          users, times, userCache, userMap, ret, served, lookups,
          file, br, repoNames, content>>

\* ------------------------------------------------------------- data
Functions == {"listCommits", "listForkers", "listWatchers", "listIssues",
              "listStargazers", "listUsers"}

Ids   == 1..MaxId
Days  == 1..MaxTime

\* A date string of the configuration: <<>> is the empty string, <<d>> with
\* d a day is a well-formed date, <<0>> is a non-empty string that is no date.
DateStrings == {<<>>} \cup {<<d>> : d \in 0..MaxTime}

\* An item of a listing.  id is the ID of the user the item names (the
\* commit's Author, the fork's Owner, the watcher, the issue's User, the
\* stargazer's User); 0 stands for a commit whose Author is nil.  ts is
\* the item's timestamp (CreatedAt of a fork, StarredAt of a stargazer),
\* 0 where the item has none.
ItemsOf(f) ==
    CASE f = "listCommits"    -> [id : 0..MaxId, ts : {0}]
      [] f = "listForkers"    -> [id : Ids, ts : Days]
      [] f = "listStargazers" -> [id : Ids, ts : Days]
      [] OTHER                -> [id : Ids, ts : {0}]

SeqsUpTo(S, n) == UNION {[1..k -> S] : k \in 0..n}

RECURSIVE Flatten(_)
Flatten(ps) == IF ps = <<>> THEN <<>> ELSE Head(ps) \o Flatten(Tail(ps))

\* The pages the remote answered with so far, and the items on them.
PagesServed == SelectSeq(served, LAMBDA c : ~c.err)
ItemsServed == Flatten([i \in 1..Len(PagesServed) |-> PagesServed[i].items])

\* The lightweight user record embedded in a listing item, and the full
\* profile Users.GetByID answers with.
Stub(id)    == [id |-> id, full |-> FALSE]
Profile(id) == [id |-> id, full |-> TRUE]

\* Nothing returned yet.
NoRet == [users |-> <<>>, times |-> <<>>, err |-> "nil"]

\* Mutants of Failure: the slices collected so far are returned with the
\* error; the error is dropped.
FailureKeepsUsers(e) == [users |-> users, times |-> times, err |-> e]
FailureSwallowed(e)  == [users |-> <<>>, times |-> <<>>, err |-> "nil"]

\* What a function returns on an error: nil slices and the traced error.
Failure(e) == [users |-> <<>>, times |-> <<>>, err |-> e]

\* ------------------------------------------------------------- helpers
\* parseDate: the date string to a time, or an error.
parseDate(s) ==
    IF Len(s) = 1 /\ s[1] \in Days THEN [ok |-> TRUE, t |-> s[1]]
                                   ELSE [ok |-> FALSE, t |-> 0]

\* checkTime: whether t lies in the window from start to end.
checkTime(s, e, t) == s <= t /\ t <= e

\* useTimeFilter := len(cfg.StartDate) > 0 && len(cfg.EndDate) > 0
UseTimeFilter(c) == Len(c.StartDate) > 0 /\ Len(c.EndDate) > 0

\* Mutants of Skip: the test of useTimeFilter is left out; the ! is left out.
SkipUnguarded(u, s, e, t) == ~checkTime(s, e, t)
SkipInverted(u, s, e, t)  == u /\ checkTime(s, e, t)

\* if useTimeFilter { if !checkTime(start, end, ts) { continue } }
Skip(u, s, e, t) == u /\ ~checkTime(s, e, t)

\* Mutants of LastPage: the loop breaks after any page; it never breaks.
LastPageAlways(next) == TRUE
LastPageNever(next)  == FALSE

\* if resp.NextPage == 0 { break }
LastPage(next) == next = 0

\* Mutant of Cached: the cache is never hit.
CachedNever(cache, id) == FALSE

\* _, ok := userCache[id]
Cached(cache, id) == id \in cache

\* The key user.ID of listCommits' map is a *int, the address of the int the
\* JSON decoder allocated for this commit's Author.ID: one address per
\* commit, here the commit's position in the listing served so far.
AuthorIDKey(i) == Len(ItemsServed) - Len(page) + i

\* The sequences that list every element of the set S once.
Orders(S) ==
    {o \in [1..Cardinality(S) -> S] : \A i, j \in DOMAIN o : o[i] = o[j] => i = j}

\* ------------------------------------------------------------- the remote
\* The items the remote may still serve, and the cursors it may name: a
\* listing call for page 0 is answered with page 1, and NextPage is 0 on
\* the last page and a later page's number otherwise.
Remaining == MaxItems - Len(ItemsServed)
PageNo    == IF opt = 0 THEN 1 ELSE opt
Cursors   == {0} \cup {p \in 1..MaxPage : p > PageNo}

\* A listing call that answers, and one that fails.
Answered(items, next) ==
    served' = Append(served, [page |-> opt, items |-> items, next |-> next,
                              err |-> FALSE])
Refused ==
    served' = Append(served, [page |-> opt, items |-> <<>>, next |-> 0,
                              err |-> TRUE])

\* client.Users.GetByID(ctx, id), answering with the profile or failing.
GetByIDAnswers(id) == lookups' = Append(lookups, [id |-> id, err |-> FALSE])
GetByIDFails(id)   == lookups' = Append(lookups, [id |-> id, err |-> TRUE])

\* ------------------------------------------------------------- text
\* The characters of the user-list file: the digits of the user IDs, a
\* character that is neither a digit nor white space, a space, a newline.
Newline == "\n"
White   == {" ", Newline}
Chars   == {ToString(d) : d \in Ids} \cup {"x"} \cup White

\* br.ReadString('\n') at position br: the characters up to and including
\* the next newline, or, when there is none, the rest of the file and io.EOF.
ReadString ==
    IF \E k \in br..Len(file) : file[k] = Newline
       THEN LET k == CHOOSE k \in br..Len(file) :
                        /\ file[k] = Newline
                        /\ \A j \in br..(k - 1) : file[j] # Newline
            IN  [line |-> SubSeq(file, br, k), eof |-> FALSE, next |-> k + 1]
       ELSE [line |-> SubSeq(file, br, Len(file)), eof |-> TRUE,
             next |-> Len(file) + 1]

\* strings.TrimSpace
RECURSIVE TrimSpace(_)
TrimSpace(str) ==
    IF str = <<>> THEN <<>>
    ELSE IF Head(str) \in White THEN TrimSpace(Tail(str))
    ELSE IF str[Len(str)] \in White THEN TrimSpace(SubSeq(str, 1, Len(str) - 1))
    ELSE str

\* strings.Fields: the maximal runs of characters that are not white space.
RECURSIVE Fields(_)
Fields(str) ==
    IF str = <<>> THEN <<>>
    ELSE IF Head(str) \in White THEN Fields(Tail(str))
    ELSE LET n == CHOOSE n \in 1..Len(str) :
                     /\ \A j \in 1..n : str[j] \notin White
                     /\ n = Len(str) \/ str[n + 1] \in White
         IN  <<SubSeq(str, 1, n)>> \o Fields(SubSeq(str, n + 1, Len(str)))

\* strconv.ParseInt(str, 10, 64): the decimal value of a non-empty string of
\* digits, an error for any other string of these characters.
DigitOf(c) == CHOOSE d \in 0..9 : ToString(d) = c
IsDigit(c) == \E d \in 0..9 : ToString(d) = c
RECURSIVE Decimal(_)
Decimal(str) ==
    IF str = <<>> THEN 0
    ELSE 10 * Decimal(SubSeq(str, 1, Len(str) - 1)) + DigitOf(str[Len(str)])
ParseInt(str) ==
    IF str # <<>> /\ \A j \in DOMAIN str : IsDigit(str[j])
       THEN [ok |-> TRUE, id |-> Decimal(str)]
       ELSE [ok |-> FALSE, id |-> 0]

\* The names of repositories: non-empty strings of letters, a letter being
\* a number that orders as the letter's byte does.
Names == UNION {[1..k -> 1..MaxName] : k \in 1..MaxName}

\* a < b for Go strings: byte by byte, a proper prefix first.
LexLess(a, b) ==
    \E k \in 1..Len(b) :
       /\ k <= Len(a) + 1
       /\ \A j \in 1..(k - 1) : a[j] = b[j]
       /\ k = Len(a) + 1 \/ a[k] < b[k]

\* Mutant of SortStrings: the strings are left as they come.
SortStringsLeftOut(q) == q

\* sort.Strings: the strings in ascending order.
RECURSIVE SortStrings(_)
SortStrings(q) ==
    IF q = <<>> THEN <<>>
    ELSE LET x    == q[Len(q)]
             rest == SortStrings(SubSeq(q, 1, Len(q) - 1))
             n    == Cardinality({i \in DOMAIN rest : ~LexLess(x, rest[i])})
         IN  SubSeq(rest, 1, n) \o <<x>> \o SubSeq(rest, n + 1, Len(rest))

\* ------------------------------------------------------------- Init
Init ==
    /\ fn \in Functions \cup {"printRepos"}
    /\ cfg \in [StartDate : DateStrings, EndDate : DateStrings]
    \* only listForkers and listStargazers read the dates
    /\ fn \notin {"listForkers", "listStargazers"}
          => cfg = [StartDate |-> <<>>, EndDate |-> <<>>]
    /\ onlyID \in BOOLEAN
    /\ fn # "listStargazers" => onlyID = FALSE
    /\ pc = "entry"
    /\ opt = 0
    /\ useTimeFilter = FALSE
    /\ start = 0
    /\ end = 0
    /\ page = <<>>
    /\ idx = 1
    /\ resp = 0
    /\ users = <<>>
    /\ times = <<>>
    /\ userCache = {}
    /\ userMap = <<>>
    /\ ret = NoRet
    /\ served = <<>>
    /\ lookups = <<>>
    /\ file \in IF fn = "listUsers" THEN SeqsUpTo(Chars, MaxFile) ELSE {<<>>}
    /\ br = 1
    /\ repoNames \in IF fn = "printRepos" THEN SeqsUpTo(Names, MaxRepos) ELSE {<<>>}
    /\ content = <<>>

\* ------------------------------------------------------------- listWatchers
listWatchersEntry ==
    /\ fn = "listWatchers" /\ pc = "entry"
    /\ pc' = "fetch"
    /\ UNCHANGED <<file, br, repoNames, content>>
    /\ UNCHANGED <<fn, cfg, onlyID, opt, useTimeFilter, start, end, page, idx,
                   resp, users, times, userCache, userMap, ret, served, lookups>>

listWatchersFetch ==
    /\ fn = "listWatchers" /\ pc = "fetch"
    /\ \/ /\ Refused
          /\ ret' = Failure("fetch")
          /\ pc' = "done"
          /\ UNCHANGED <<page, idx, resp>>
       \/ \E items \in SeqsUpTo(ItemsOf(fn), Remaining), next \in Cursors :
             /\ Answered(items, next)
             /\ page' = items
             /\ resp' = next
             /\ idx' = 1
             /\ pc' = "range"
             /\ UNCHANGED ret
    /\ UNCHANGED <<file, br, repoNames, content>>
    /\ UNCHANGED <<fn, cfg, onlyID, opt, useTimeFilter, start, end, users,
                   times, userCache, userMap, lookups>>

\* Mutant of listWatchersRange: a failed lookup is logged over and the loop
\* goes on with the next user.
listWatchersRangeSkips ==
    /\ fn = "listWatchers" /\ pc = "range" /\ idx <= Len(page)
    /\ LET user == page[idx] IN
       \/ /\ GetByIDFails(user.id)
          /\ idx' = idx + 1
          /\ UNCHANGED <<users, ret, pc>>
       \/ /\ GetByIDAnswers(user.id)
          /\ users' = Append(users, Profile(user.id))
          /\ idx' = idx + 1
          /\ UNCHANGED <<ret, pc>>
    /\ UNCHANGED <<file, br, repoNames, content>>
    /\ UNCHANGED <<fn, cfg, onlyID, opt, useTimeFilter, start, end, page, resp,
                   times, userCache, userMap, served>>

listWatchersRange ==
    /\ fn = "listWatchers" /\ pc = "range" /\ idx <= Len(page)
    /\ LET user == page[idx] IN
       \/ /\ GetByIDFails(user.id)
          /\ ret' = Failure("lookup")
          /\ pc' = "done"
          /\ UNCHANGED <<users, idx>>
       \/ /\ GetByIDAnswers(user.id)
          /\ users' = Append(users, Profile(user.id))
          /\ idx' = idx + 1
          /\ UNCHANGED <<ret, pc>>
    /\ UNCHANGED <<file, br, repoNames, content>>
    /\ UNCHANGED <<fn, cfg, onlyID, opt, useTimeFilter, start, end, page, resp,
                   times, userCache, userMap, served>>

listWatchersNext ==
    /\ fn = "listWatchers" /\ pc = "range" /\ idx > Len(page)
    /\ IF LastPage(resp)
          THEN /\ ret' = [users |-> users, times |-> times, err |-> "nil"]
               /\ pc' = "done"
               /\ UNCHANGED opt
          ELSE /\ opt' = resp
               /\ pc' = "fetch"
               /\ UNCHANGED ret
    /\ UNCHANGED <<file, br, repoNames, content>>
    /\ UNCHANGED <<fn, cfg, onlyID, useTimeFilter, start, end, page, idx, resp,
                   users, times, userCache, userMap, served, lookups>>

\* ------------------------------------------------------------- listForkers
listForkersEntry ==
    /\ fn = "listForkers" /\ pc = "entry"
    /\ useTimeFilter' = UseTimeFilter(cfg)
    /\ IF ~UseTimeFilter(cfg)
          THEN /\ pc' = "fetch"
               /\ UNCHANGED <<start, end, ret>>
          ELSE IF ~parseDate(cfg.StartDate).ok
          THEN /\ ret' = Failure("parse")
               /\ pc' = "done"
               /\ UNCHANGED <<start, end>>
          ELSE IF ~parseDate(cfg.EndDate).ok
          THEN /\ start' = parseDate(cfg.StartDate).t
               /\ ret' = Failure("parse")
               /\ pc' = "done"
               /\ UNCHANGED end
          ELSE /\ start' = parseDate(cfg.StartDate).t
               /\ end' = parseDate(cfg.EndDate).t
               /\ pc' = "fetch"
               /\ UNCHANGED ret
    /\ UNCHANGED <<file, br, repoNames, content>>
    /\ UNCHANGED <<fn, cfg, onlyID, opt, page, idx, resp, users, times,
                   userCache, userMap, served, lookups>>

listForkersFetch ==
    /\ fn = "listForkers" /\ pc = "fetch"
    /\ \/ /\ Refused
          /\ ret' = Failure("fetch")
          /\ pc' = "done"
          /\ UNCHANGED <<page, idx, resp>>
       \/ \E repos \in SeqsUpTo(ItemsOf(fn), Remaining), next \in Cursors :
             /\ Answered(repos, next)
             /\ page' = repos
             /\ resp' = next
             /\ idx' = 1
             /\ pc' = "range"
             /\ UNCHANGED ret
    /\ UNCHANGED <<file, br, repoNames, content>>
    /\ UNCHANGED <<fn, cfg, onlyID, opt, useTimeFilter, start, end, users,
                   times, userCache, userMap, lookups>>

\* Mutant of listForkersRange: the timestamp is appended before the filter.
listForkersRangeDesync ==
    /\ fn = "listForkers" /\ pc = "range" /\ idx <= Len(page)
    /\ LET repo == page[idx] IN
       \/ /\ Skip(useTimeFilter, start, end, repo.ts)
          /\ times' = Append(times, repo.ts)
          /\ idx' = idx + 1
          /\ UNCHANGED <<users, ret, pc, lookups>>
       \/ /\ ~Skip(useTimeFilter, start, end, repo.ts)
          /\ GetByIDFails(repo.id)
          /\ ret' = Failure("lookup")
          /\ pc' = "done"
          /\ UNCHANGED <<users, times, idx>>
       \/ /\ ~Skip(useTimeFilter, start, end, repo.ts)
          /\ GetByIDAnswers(repo.id)
          /\ users' = Append(users, Profile(repo.id))
          /\ times' = Append(times, repo.ts)
          /\ idx' = idx + 1
          /\ UNCHANGED <<ret, pc>>
    /\ UNCHANGED <<file, br, repoNames, content>>
    /\ UNCHANGED <<fn, cfg, onlyID, opt, useTimeFilter, start, end, page, resp,
                   userCache, userMap, served>>

\* Mutant of listForkersRange: the owner is looked up before the filter.
listForkersRangeHydratesFirst ==
    /\ fn = "listForkers" /\ pc = "range" /\ idx <= Len(page)
    /\ LET repo == page[idx] IN
       \/ /\ GetByIDFails(repo.id)
          /\ ret' = Failure("lookup")
          /\ pc' = "done"
          /\ UNCHANGED <<users, times, idx>>
       \/ /\ Skip(useTimeFilter, start, end, repo.ts)
          /\ GetByIDAnswers(repo.id)
          /\ idx' = idx + 1
          /\ UNCHANGED <<users, times, ret, pc>>
       \/ /\ ~Skip(useTimeFilter, start, end, repo.ts)
          /\ GetByIDAnswers(repo.id)
          /\ users' = Append(users, Profile(repo.id))
          /\ times' = Append(times, repo.ts)
          /\ idx' = idx + 1
          /\ UNCHANGED <<ret, pc>>
    /\ UNCHANGED <<file, br, repoNames, content>>
    /\ UNCHANGED <<fn, cfg, onlyID, opt, useTimeFilter, start, end, page, resp,
                   userCache, userMap, served>>

listForkersRange ==
    /\ fn = "listForkers" /\ pc = "range" /\ idx <= Len(page)
    /\ LET repo == page[idx] IN
       \/ /\ Skip(useTimeFilter, start, end, repo.ts)
          /\ idx' = idx + 1
          /\ UNCHANGED <<users, times, ret, pc, lookups>>
       \/ /\ ~Skip(useTimeFilter, start, end, repo.ts)
          /\ GetByIDFails(repo.id)
          /\ ret' = Failure("lookup")
          /\ pc' = "done"
          /\ UNCHANGED <<users, times, idx>>
       \/ /\ ~Skip(useTimeFilter, start, end, repo.ts)
          /\ GetByIDAnswers(repo.id)
          /\ users' = Append(users, Profile(repo.id))
          /\ times' = Append(times, repo.ts)
          /\ idx' = idx + 1
          /\ UNCHANGED <<ret, pc>>
    /\ UNCHANGED <<file, br, repoNames, content>>
    /\ UNCHANGED <<fn, cfg, onlyID, opt, useTimeFilter, start, end, page, resp,
                   userCache, userMap, served>>

listForkersNext ==
    /\ fn = "listForkers" /\ pc = "range" /\ idx > Len(page)
    /\ IF LastPage(resp)
          THEN /\ ret' = [users |-> users, times |-> times, err |-> "nil"]
               /\ pc' = "done"
               /\ UNCHANGED opt
          ELSE /\ opt' = resp
               /\ pc' = "fetch"
               /\ UNCHANGED ret
    /\ UNCHANGED <<file, br, repoNames, content>>
    /\ UNCHANGED <<fn, cfg, onlyID, useTimeFilter, start, end, page, idx, resp,
                   users, times, userCache, userMap, served, lookups>>

\* ------------------------------------------------------------- listStargazers
listStargazersEntry ==
    /\ fn = "listStargazers" /\ pc = "entry"
    /\ useTimeFilter' = UseTimeFilter(cfg)
    /\ IF ~UseTimeFilter(cfg)
          THEN /\ pc' = "fetch"
               /\ UNCHANGED <<start, end, ret>>
          ELSE IF ~parseDate(cfg.StartDate).ok
          THEN /\ ret' = Failure("parse")
               /\ pc' = "done"
               /\ UNCHANGED <<start, end>>
          ELSE IF ~parseDate(cfg.EndDate).ok
          THEN /\ start' = parseDate(cfg.StartDate).t
               /\ ret' = Failure("parse")
               /\ pc' = "done"
               /\ UNCHANGED end
          ELSE /\ start' = parseDate(cfg.StartDate).t
               /\ end' = parseDate(cfg.EndDate).t
               /\ pc' = "fetch"
               /\ UNCHANGED ret
    /\ UNCHANGED <<file, br, repoNames, content>>
    /\ UNCHANGED <<fn, cfg, onlyID, opt, page, idx, resp, users, times,
                   userCache, userMap, served, lookups>>

listStargazersFetch ==
    /\ fn = "listStargazers" /\ pc = "fetch"
    /\ \/ /\ Refused
          /\ ret' = Failure("fetch")
          /\ pc' = "done"
          /\ UNCHANGED <<page, idx, resp>>
       \/ \E stargazers \in SeqsUpTo(ItemsOf(fn), Remaining), next \in Cursors :
             /\ Answered(stargazers, next)
             /\ page' = stargazers
             /\ resp' = next
             /\ idx' = 1
             /\ pc' = "range"
             /\ UNCHANGED ret
    /\ UNCHANGED <<file, br, repoNames, content>>
    /\ UNCHANGED <<fn, cfg, onlyID, opt, useTimeFilter, start, end, users,
                   times, userCache, userMap, lookups>>

\* Mutant of listStargazersRange: onlyID is not looked at.
listStargazersRangeAlwaysHydrates ==
    /\ fn = "listStargazers" /\ pc = "range" /\ idx <= Len(page)
    /\ LET stargazer == page[idx] IN
       \/ /\ Skip(useTimeFilter, start, end, stargazer.ts)
          /\ idx' = idx + 1
          /\ UNCHANGED <<users, times, ret, pc, lookups>>
       \/ /\ ~Skip(useTimeFilter, start, end, stargazer.ts)
          /\ GetByIDFails(stargazer.id)
          /\ ret' = Failure("lookup")
          /\ pc' = "done"
          /\ UNCHANGED <<users, times, idx>>
       \/ /\ ~Skip(useTimeFilter, start, end, stargazer.ts)
          /\ GetByIDAnswers(stargazer.id)
          /\ users' = Append(users, Profile(stargazer.id))
          /\ times' = Append(times, stargazer.ts)
          /\ idx' = idx + 1
          /\ UNCHANGED <<ret, pc>>
    /\ UNCHANGED <<file, br, repoNames, content>>
    /\ UNCHANGED <<fn, cfg, onlyID, opt, useTimeFilter, start, end, page, resp,
                   userCache, userMap, served>>

listStargazersRange ==
    /\ fn = "listStargazers" /\ pc = "range" /\ idx <= Len(page)
    /\ LET stargazer == page[idx] IN
       \/ /\ Skip(useTimeFilter, start, end, stargazer.ts)
          /\ idx' = idx + 1
          /\ UNCHANGED <<users, times, ret, pc, lookups>>
       \/ /\ ~Skip(useTimeFilter, start, end, stargazer.ts)
          /\ onlyID
          /\ users' = Append(users, Stub(stargazer.id))
          /\ times' = Append(times, stargazer.ts)
          /\ idx' = idx + 1
          /\ UNCHANGED <<ret, pc, lookups>>
       \/ /\ ~Skip(useTimeFilter, start, end, stargazer.ts)
          /\ ~onlyID
          /\ GetByIDFails(stargazer.id)
          /\ ret' = Failure("lookup")
          /\ pc' = "done"
          /\ UNCHANGED <<users, times, idx>>
       \/ /\ ~Skip(useTimeFilter, start, end, stargazer.ts)
          /\ ~onlyID
          /\ GetByIDAnswers(stargazer.id)
          /\ users' = Append(users, Profile(stargazer.id))
          /\ times' = Append(times, stargazer.ts)
          /\ idx' = idx + 1
          /\ UNCHANGED <<ret, pc>>
    /\ UNCHANGED <<file, br, repoNames, content>>
    /\ UNCHANGED <<fn, cfg, onlyID, opt, useTimeFilter, start, end, page, resp,
                   userCache, userMap, served>>

listStargazersNext ==
    /\ fn = "listStargazers" /\ pc = "range" /\ idx > Len(page)
    /\ IF LastPage(resp)
          THEN /\ ret' = [users |-> users, times |-> times, err |-> "nil"]
               /\ pc' = "done"
               /\ UNCHANGED opt
          ELSE /\ opt' = resp
               /\ pc' = "fetch"
               /\ UNCHANGED ret
    /\ UNCHANGED <<file, br, repoNames, content>>
    /\ UNCHANGED <<fn, cfg, onlyID, useTimeFilter, start, end, page, idx, resp,
                   users, times, userCache, userMap, served, lookups>>

\* ------------------------------------------------------------- listIssues
listIssuesEntry ==
    /\ fn = "listIssues" /\ pc = "entry"
    /\ userCache' = {}
    /\ pc' = "fetch"
    /\ UNCHANGED <<file, br, repoNames, content>>
    /\ UNCHANGED <<fn, cfg, onlyID, opt, useTimeFilter, start, end, page, idx,
                   resp, users, times, userMap, ret, served, lookups>>

listIssuesFetch ==
    /\ fn = "listIssues" /\ pc = "fetch"
    /\ \/ /\ Refused
          /\ ret' = Failure("fetch")
          /\ pc' = "done"
          /\ UNCHANGED <<page, idx, resp>>
       \/ \E issues \in SeqsUpTo(ItemsOf(fn), Remaining), next \in Cursors :
             /\ Answered(issues, next)
             /\ page' = issues
             /\ resp' = next
             /\ idx' = 1
             /\ pc' = "range"
             /\ UNCHANGED ret
    /\ UNCHANGED <<file, br, repoNames, content>>
    /\ UNCHANGED <<fn, cfg, onlyID, opt, useTimeFilter, start, end, users,
                   times, userCache, userMap, lookups>>

\* Mutant of listIssuesRange: the ID is put in the cache before the lookup.
listIssuesRangeCachesFirst ==
    /\ fn = "listIssues" /\ pc = "range" /\ idx <= Len(page)
    /\ LET issue == page[idx] IN
       \/ /\ Cached(userCache, issue.id)
          /\ idx' = idx + 1
          /\ UNCHANGED <<users, userCache, ret, pc, lookups>>
       \/ /\ ~Cached(userCache, issue.id)
          /\ GetByIDFails(issue.id)
          /\ userCache' = userCache \cup {issue.id}
          /\ ret' = Failure("lookup")
          /\ pc' = "done"
          /\ UNCHANGED <<users, idx>>
       \/ /\ ~Cached(userCache, issue.id)
          /\ GetByIDAnswers(issue.id)
          /\ users' = Append(users, Profile(issue.id))
          /\ userCache' = userCache \cup {issue.id}
          /\ idx' = idx + 1
          /\ UNCHANGED <<ret, pc>>
    /\ UNCHANGED <<file, br, repoNames, content>>
    /\ UNCHANGED <<fn, cfg, onlyID, opt, useTimeFilter, start, end, page, resp,
                   times, userMap, served>>

listIssuesRange ==
    /\ fn = "listIssues" /\ pc = "range" /\ idx <= Len(page)
    /\ LET issue == page[idx] IN
       \/ /\ Cached(userCache, issue.id)
          /\ idx' = idx + 1
          /\ UNCHANGED <<users, userCache, ret, pc, lookups>>
       \/ /\ ~Cached(userCache, issue.id)
          /\ GetByIDFails(issue.id)
          /\ ret' = Failure("lookup")
          /\ pc' = "done"
          /\ UNCHANGED <<users, userCache, idx>>
       \/ /\ ~Cached(userCache, issue.id)
          /\ GetByIDAnswers(issue.id)
          /\ users' = Append(users, Profile(issue.id))
          /\ userCache' = userCache \cup {issue.id}
          /\ idx' = idx + 1
          /\ UNCHANGED <<ret, pc>>
    /\ UNCHANGED <<file, br, repoNames, content>>
    /\ UNCHANGED <<fn, cfg, onlyID, opt, useTimeFilter, start, end, page, resp,
                   times, userMap, served>>

listIssuesNext ==
    /\ fn = "listIssues" /\ pc = "range" /\ idx > Len(page)
    /\ IF LastPage(resp)
          THEN /\ ret' = [users |-> users, times |-> <<>>, err |-> "nil"]
               /\ pc' = "done"
               /\ UNCHANGED opt
          ELSE /\ opt' = resp
               /\ pc' = "fetch"
               /\ UNCHANGED ret
    /\ UNCHANGED <<file, br, repoNames, content>>
    /\ UNCHANGED <<fn, cfg, onlyID, useTimeFilter, start, end, page, idx, resp,
                   users, times, userCache, userMap, served, lookups>>

\* ------------------------------------------------------------- listCommits
listCommitsEntry ==
    /\ fn = "listCommits" /\ pc = "entry"
    /\ userMap' = <<>>
    /\ pc' = "fetch"
    /\ UNCHANGED <<file, br, repoNames, content>>
    /\ UNCHANGED <<fn, cfg, onlyID, opt, useTimeFilter, start, end, page, idx,
                   resp, users, times, userCache, ret, served, lookups>>

listCommitsFetch ==
    /\ fn = "listCommits" /\ pc = "fetch"
    /\ \/ /\ Refused
          /\ ret' = Failure("fetch")
          /\ pc' = "done"
          /\ UNCHANGED <<page, idx, resp>>
       \/ \E commits \in SeqsUpTo(ItemsOf(fn), Remaining), next \in Cursors :
             /\ Answered(commits, next)
             /\ page' = commits
             /\ resp' = next
             /\ idx' = 1
             /\ pc' = "range"
             /\ UNCHANGED ret
    /\ UNCHANGED <<file, br, repoNames, content>>
    /\ UNCHANGED <<fn, cfg, onlyID, opt, useTimeFilter, start, end, users,
                   times, userCache, userMap, lookups>>

\* user := *commit.Author panics when the commit has no Author; otherwise the
\* copy is stored under the key user.ID, a *int, unless that key is present.
listCommitsRange ==
    /\ fn = "listCommits" /\ pc = "range" /\ idx <= Len(page)
    /\ LET commit == page[idx] IN
       \/ /\ commit.id = 0
          /\ pc' = "panic"
          /\ UNCHANGED <<userMap, idx>>
       \/ /\ commit.id # 0
          /\ userMap' = IF AuthorIDKey(idx) \in DOMAIN userMap
                           THEN userMap
                           ELSE userMap @@ (AuthorIDKey(idx) :> Stub(commit.id))
          /\ idx' = idx + 1
          /\ UNCHANGED pc
    /\ UNCHANGED <<file, br, repoNames, content>>
    /\ UNCHANGED <<fn, cfg, onlyID, opt, useTimeFilter, start, end, page, resp,
                   users, times, userCache, ret, served, lookups>>

listCommitsNext ==
    /\ fn = "listCommits" /\ pc = "range" /\ idx > Len(page)
    /\ IF LastPage(resp)
          THEN /\ pc' = "collect"
               /\ UNCHANGED opt
          ELSE /\ opt' = resp
               /\ pc' = "fetch"
    /\ UNCHANGED <<file, br, repoNames, content>>
    /\ UNCHANGED <<fn, cfg, onlyID, useTimeFilter, start, end, page, idx, resp,
                   users, times, userCache, userMap, ret, served, lookups>>

\* for _, user := range users { gUser = append(gUser, user) }: Go ranges
\* over a map in an order it does not specify.
listCommitsReturn ==
    /\ fn = "listCommits" /\ pc = "collect"
    /\ \E order \in Orders(DOMAIN userMap) :
          ret' = [users |-> [i \in DOMAIN order |-> userMap[order[i]]],
                  times |-> <<>>, err |-> "nil"]
    /\ pc' = "done"
    /\ UNCHANGED <<file, br, repoNames, content>>
    /\ UNCHANGED <<fn, cfg, onlyID, opt, useTimeFilter, start, end, page, idx,
                   resp, users, times, userCache, userMap, served, lookups>>

\* ------------------------------------------------------------- listUsers
listUsersOpen ==
    /\ fn = "listUsers" /\ pc = "entry"
    /\ \/ /\ ret' = Failure("open")
          /\ pc' = "done"
          /\ UNCHANGED <<br, users>>
       \/ /\ br' = 1
          /\ users' = <<>>
          /\ pc' = "read"
          /\ UNCHANGED ret
    /\ UNCHANGED <<fn, cfg, onlyID, opt, useTimeFilter, start, end, page, idx,
                   resp, times, userCache, userMap, served, lookups, file,
                   repoNames, content>>

\* One turn of the loop: a line is read; on io.EOF the loop is left and
\* users returned; otherwise the first field of the line is parsed
\* (datas[0] panics when the line has no field) and looked up.
listUsersLine ==
    /\ fn = "listUsers" /\ pc = "read"
    /\ br' = ReadString.next
    /\ LET line  == ReadString.line
           datas == Fields(TrimSpace(line))
       IN  \/ /\ ReadString.eof
              /\ ret' = [users |-> users, times |-> <<>>, err |-> "nil"]
              /\ pc' = "done"
              /\ UNCHANGED <<users, lookups>>
           \/ /\ ~ReadString.eof
              /\ datas = <<>>
              /\ pc' = "panic"
              /\ UNCHANGED <<users, lookups, ret>>
           \/ /\ ~ReadString.eof
              /\ datas # <<>>
              /\ ~ParseInt(datas[1]).ok
              /\ ret' = Failure("parse")
              /\ pc' = "done"
              /\ UNCHANGED <<users, lookups>>
           \/ /\ ~ReadString.eof
              /\ datas # <<>>
              /\ ParseInt(datas[1]).ok
              /\ GetByIDFails(ParseInt(datas[1]).id)
              /\ ret' = Failure("lookup")
              /\ pc' = "done"
              /\ UNCHANGED users
           \/ /\ ~ReadString.eof
              /\ datas # <<>>
              /\ ParseInt(datas[1]).ok
              /\ GetByIDAnswers(ParseInt(datas[1]).id)
              /\ users' = Append(users, Profile(ParseInt(datas[1]).id))
              /\ UNCHANGED <<ret, pc>>
    /\ UNCHANGED <<fn, cfg, onlyID, opt, useTimeFilter, start, end, page, idx,
                   resp, times, userCache, userMap, served, file, repoNames,
                   content>>

\* ------------------------------------------------------------- the printers
\* printRepos: the names are collected, sorted and logged, one per line.
printRepos ==
    /\ fn = "printRepos" /\ pc = "entry"
    /\ content' = SortStrings(repoNames)
    /\ pc' = "printed"
    /\ UNCHANGED <<fn, cfg, onlyID, opt, useTimeFilter, start, end, page, idx,
                   resp, users, times, userCache, userMap, ret, served,
                   lookups, file, br, repoNames>>

\* The row of user i: the user's fields and, when times are printed, the
\* tab and times[i].
Row(us, ts, printTime, i) ==
    [id |-> us[i].id, full |-> us[i].full,
     time |-> IF printTime THEN <<ts[i]>> ELSE <<>>]

\* Mutant of printUsers: the time of the next user is read, times[i+1].
printUsersOffByOne ==
    /\ fn \in Functions /\ pc = "done" /\ ret.err = "nil"
    /\ LET printTime == Len(ret.times) > 0 IN
       IF \E i \in DOMAIN ret.users : printTime /\ (i + 1) \notin DOMAIN ret.times
          THEN /\ pc' = "panic"
               /\ UNCHANGED content
          ELSE /\ content' = [i \in DOMAIN ret.users |->
                                 [id |-> ret.users[i].id, full |-> ret.users[i].full,
                                  time |-> IF printTime THEN <<ret.times[i + 1]>>
                                                        ELSE <<>>]]
               /\ pc' = "printed"
    /\ UNCHANGED <<fn, cfg, onlyID, opt, useTimeFilter, start, end, page, idx,
                   resp, users, times, userCache, userMap, ret, served,
                   lookups, file, br, repoNames>>

\* printUsers on the users and times a list function returned: times[i] is
\* read for every user when len(times) > 0, and panics when out of range.
printUsers ==
    /\ fn \in Functions /\ pc = "done" /\ ret.err = "nil"
    /\ LET printTime == Len(ret.times) > 0 IN
       IF \E i \in DOMAIN ret.users : printTime /\ i \notin DOMAIN ret.times
          THEN /\ pc' = "panic"
               /\ UNCHANGED content
          ELSE /\ content' = [i \in DOMAIN ret.users |->
                                 Row(ret.users, ret.times, printTime, i)]
               /\ pc' = "printed"
    /\ UNCHANGED <<fn, cfg, onlyID, opt, useTimeFilter, start, end, page, idx,
                   resp, users, times, userCache, userMap, ret, served,
                   lookups, file, br, repoNames>>

\* printUserIDs: the same loop with the ID as the only field of the user.
printUserIDs ==
    /\ fn \in Functions /\ pc = "done" /\ ret.err = "nil"
    /\ LET printTime == Len(ret.times) > 0 IN
       IF \E i \in DOMAIN ret.users : printTime /\ i \notin DOMAIN ret.times
          THEN /\ pc' = "panic"
               /\ UNCHANGED content
          ELSE /\ content' = [i \in DOMAIN ret.users |->
                                 [id |-> ret.users[i].id,
                                  time |-> IF printTime THEN <<ret.times[i]>>
                                                        ELSE <<>>]]
               /\ pc' = "printed"
    /\ UNCHANGED <<fn, cfg, onlyID, opt, useTimeFilter, start, end, page, idx,
                   resp, users, times, userCache, userMap, ret, served,
                   lookups, file, br, repoNames>>

Next ==
    \/ listUsersOpen \/ listUsersLine
    \/ printRepos \/ printUsers \/ printUserIDs
    \/ listCommitsEntry \/ listCommitsFetch \/ listCommitsRange
    \/ listCommitsNext \/ listCommitsReturn
    \/ listIssuesEntry \/ listIssuesFetch \/ listIssuesRange
    \/ listIssuesNext
    \/ listForkersEntry \/ listForkersFetch \/ listForkersRange
    \/ listForkersNext
    \/ listWatchersEntry \/ listWatchersFetch \/ listWatchersRange
    \/ listWatchersNext
    \/ listStargazersEntry \/ listStargazersFetch \/ listStargazersRange
    \/ listStargazersNext

Spec == Init /\ [][Next]_vars


\* ------------------------------------------------------------- properties
IdsOf(us) == [i \in DOMAIN us |-> us[i].id]
NoDup(q)  == \A i, j \in DOMAIN q : q[i] = q[j] => i = j

\* The elements of q, each once, in the order of their first occurrence.
RECURSIVE Dedup(_)
Dedup(q) ==
    IF q = <<>> THEN <<>>
    ELSE LET r == Dedup(SubSeq(q, 1, Len(q) - 1))
         IN  IF \E i \in DOMAIN r : r[i] = q[Len(q)] THEN r
                                                    ELSE Append(r, q[Len(q)])

Timestamped   == fn \in {"listForkers", "listStargazers"}
Returned      == pc = "done"
Succeeded     == pc = "done" /\ ret.err = "nil"
FetchFailed   == \E i \in DOMAIN served : served[i].err
LookupFailed  == \E i \in DOMAIN lookups : lookups[i].err
\* The listing was read to its end: the last page served names no next page.
ReadToEnd     == served # <<>> /\ ~served[Len(served)].err
                               /\ served[Len(served)].next = 0
\* The items the range loops have gone past.
Processed     == SubSeq(ItemsServed, 1, Len(ItemsServed) - Len(page) + idx - 1)
\* The user a list function makes of an item it keeps.
Resolved(it)  == IF fn = "listStargazers" /\ onlyID THEN Stub(it.id)
                                                    ELSE Profile(it.id)

\* C1: when no remote call fails and no time filter is active, listForkers,
\* listWatchers and listStargazers return one user per item of the listing,
\* in the order of the items over the pages, whatever the page boundaries:
\* the result is a function of the concatenation of the pages alone.
C1_OneUserPerItem ==
    (/\ fn \in {"listForkers", "listWatchers", "listStargazers"}
     /\ Returned /\ ~FetchFailed /\ ~LookupFailed /\ ~UseTimeFilter(cfg))
    => /\ ret.err = "nil"
       /\ ReadToEnd
       /\ ret.users = [i \in DOMAIN ItemsServed |-> Resolved(ItemsServed[i])]

C1_Witness ==
    /\ fn = "listForkers" /\ Succeeded /\ ~UseTimeFilter(cfg)
    /\ Len(PagesServed) = 3
    /\ Len(PagesServed[1].items) = 0 /\ Len(PagesServed[2].items) = 2
    /\ Len(PagesServed[3].items) = 1
    /\ Len(ret.users) = 3

\* C2: listIssues returns one user per distinct reporter ID, in the order of
\* first appearance, also when a reporter has several issues or issues on
\* several pages; at no point do the collected users share an ID.
C2_IssuesDeduplicated ==
    fn = "listIssues"
    => /\ NoDup(IdsOf(users))
       /\ Succeeded => /\ ret.users = [i \in DOMAIN users |-> Profile(users[i].id)]
                       /\ IdsOf(ret.users) = Dedup(IdsOf(ItemsServed))

C2_Witness ==
    /\ fn = "listIssues" /\ Succeeded
    /\ Len(PagesServed) = 2
    /\ \E i \in DOMAIN PagesServed[1].items, j \in DOMAIN PagesServed[2].items :
          PagesServed[1].items[i].id = PagesServed[2].items[j].id
    /\ Len(ret.users) = 2 /\ Len(ItemsServed) = 3

\* C3: listCommits returns no two users with the same numeric ID.
C3_CommitAuthorsUnique ==
    (fn = "listCommits" /\ Succeeded) => NoDup(IdsOf(ret.users))

\* C4: listCommits returns the authors in the order of their first
\* occurrence in the commit listing.
C4_CommitsFirstSeenOrder ==
    (fn = "listCommits" /\ Succeeded)
    => Dedup(IdsOf(ret.users)) = Dedup(IdsOf(ItemsServed))

\* C5: once a page fetch has failed, on whichever page, the function has
\* returned a non-nil error and nil slices: nothing collected is exposed.
C5_FetchFailureAborts ==
    FetchFailed => /\ Returned
                   /\ ret.err # "nil"
                   /\ ret.users = <<>>
                   /\ ret.times = <<>>

C5_Witness ==
    /\ fn = "listForkers" /\ Returned
    /\ Len(served) = 3 /\ served[3].err
    /\ Len(users) = 2 /\ Len(times) = 2

\* C6: once a Users.GetByID lookup has failed, for whichever item, the
\* function has returned a non-nil error and nil slices.
C6_LookupFailureAborts ==
    LookupFailed => /\ Returned
                    /\ ret.err # "nil"
                    /\ ret.users = <<>>
                    /\ ret.times = <<>>

C6_Witness ==
    /\ fn = "listStargazers" /\ Returned
    /\ Len(lookups) = 3 /\ lookups[3].err
    /\ Len(served) = 2
    /\ Len(users) = 2

\* C7: the first listing call asks for page 0 (the first page), every later
\* call asks for the page the previous answer named in NextPage, no call
\* follows a failed call or an answer whose NextPage is 0, no page is asked
\* for twice, and a function that succeeded stopped on an answer whose
\* NextPage is 0: one call per page of the listing.
C7_CursorFollowed ==
    /\ served # <<>> => served[1].page = 0
    /\ \A i \in DOMAIN served :
          i > 1 => /\ ~served[i - 1].err
                   /\ served[i - 1].next # 0
                   /\ served[i].page = served[i - 1].next
    /\ NoDup([i \in DOMAIN served |->
                 IF served[i].page = 0 THEN 1 ELSE served[i].page])
    /\ pc = "fetch" => opt = IF served = <<>> THEN 0
                             ELSE served[Len(served)].next
    /\ (fn # "listUsers" /\ (Succeeded \/ pc = "collect")) => ReadToEnd

C7_Witness ==
    /\ fn = "listCommits" /\ Succeeded
    /\ Len(served) = 2
    /\ served[1].next = 3 /\ served[2].page = 3 /\ served[2].next = 0
    /\ Len(served[1].items) = 1 /\ Len(served[2].items) = 1

\* The items gone past that the time filter let through.
Kept == SelectSeq(Processed, LAMBDA it : ~Skip(useTimeFilter, start, end, it.ts))

\* C8: in listForkers and listStargazers users and times have the same
\* length at every point of the run and in every result, and times[i] is
\* the timestamp of the item users[i] was made of, skipped items included
\* in neither.
C8_UsersTimesAligned ==
    Timestamped
    => /\ Len(users) = Len(times)
       /\ Len(ret.users) = Len(ret.times)
       /\ Len(users) = Len(Kept)
       /\ \A i \in DOMAIN users : /\ users[i] = Resolved(Kept[i])
                                  /\ times[i] = Kept[i].ts
       /\ Succeeded => ret.users = users /\ ret.times = times

C8_Witness ==
    /\ fn = "listStargazers" /\ Succeeded /\ useTimeFilter
    /\ Len(ItemsServed) = 3 /\ Len(ret.users) = 2
    /\ ~checkTime(start, end, ItemsServed[2].ts)
    /\ ret.users[1].id # ret.users[2].id
    /\ ret.times[1] # ret.times[2]

\* C9: listForkers and listStargazers filter by time only when StartDate
\* and EndDate are both supplied.  When either is empty no item is skipped;
\* when both are set a successful result holds the items whose timestamp
\* passes checkTime(start, end, ts), each once, in listing order.
C9_FilterOnlyWithBothDates ==
    Timestamped
    => LET both == cfg.StartDate # <<>> /\ cfg.EndDate # <<>>
           s    == parseDate(cfg.StartDate).t
           e    == parseDate(cfg.EndDate).t
           kept == IF both
                      THEN SelectSeq(ItemsServed, LAMBDA it : checkTime(s, e, it.ts))
                      ELSE ItemsServed
       IN  /\ ~both => IdsOf(users) = IdsOf(Processed)
           /\ Succeeded => /\ IdsOf(ret.users) = IdsOf(kept)
                           /\ ret.times = [i \in DOMAIN kept |-> kept[i].ts]

C9_Witness ==
    /\ fn = "listForkers" /\ Succeeded
    /\ cfg.StartDate = <<3>> /\ cfg.EndDate = <<>>
    /\ Len(ItemsServed) = 2 /\ Len(ret.users) = 2
    /\ ItemsServed[1].ts = 1

\* C10: the window is inclusive on both ends: with the filter active a
\* successful result holds the items with start <= timestamp and
\* timestamp <= end, so an item exactly at start or exactly at end is kept.
C10_WindowInclusive ==
    (Timestamped /\ Succeeded /\ useTimeFilter)
    => LET inside == SelectSeq(ItemsServed,
                               LAMBDA it : start <= it.ts /\ it.ts <= end)
       IN  /\ ret.times = [i \in DOMAIN inside |-> inside[i].ts]
           /\ IdsOf(ret.users) = IdsOf(inside)

C10_Witness ==
    /\ fn = "listForkers" /\ Succeeded /\ useTimeFilter
    /\ start < end
    /\ Len(ItemsServed) = 3
    /\ ItemsServed[1].ts = start /\ ItemsServed[2].ts = end
    /\ ItemsServed[3].ts < start
    /\ ret.times = <<start, end>>

\* C11: listStargazers with onlyID set makes no Users.GetByID call in the
\* whole run and every user it collects is the record embedded in the
\* stargazer item; with onlyID unset every user it collects is the answer
\* of a GetByID lookup of that stargazer's ID.
C11_OnlyIDSkipsHydration ==
    fn = "listStargazers"
    => /\ onlyID => /\ lookups = <<>>
                    /\ users = [i \in DOMAIN Kept |-> Stub(Kept[i].id)]
       /\ ~onlyID => /\ Len(lookups) >= Len(users)
                     /\ \A i \in DOMAIN users : /\ ~lookups[i].err
                                                /\ lookups[i].id = Kept[i].id
                                                /\ users[i] = Profile(lookups[i].id)
       /\ Succeeded => ret.users = users

C11_Witness ==
    /\ fn = "listStargazers" /\ onlyID /\ Succeeded
    /\ Len(ItemsServed) = 3 /\ Len(ret.users) = 3
    /\ \A i \in DOMAIN ret.users : ~ret.users[i].full
    /\ lookups = <<>>

\* The lines of the file f: the characters between its newlines, the
\* characters after the last newline being a line when there are any.
RECURSIVE Lines(_)
Lines(f) ==
    IF f = <<>> THEN <<>>
    ELSE IF \E k \in DOMAIN f : f[k] = Newline
    THEN LET k == CHOOSE k \in DOMAIN f :
                     f[k] = Newline /\ \A j \in 1..(k - 1) : f[j] # Newline
         IN  <<SubSeq(f, 1, k - 1)>> \o Lines(SubSeq(f, k + 1, Len(f)))
    ELSE <<f>>

\* A line begins with a numeric identifier, and the identifier it begins with.
Numeric(line) == Fields(line) # <<>> /\ ParseInt(Fields(line)[1]).ok
IdOfLine(line) == ParseInt(Fields(line)[1]).id
Opened == fn = "listUsers" /\ pc # "entry" /\ ret.err # "open"

\* C12: when every line begins with a numeric identifier and no lookup
\* fails, listUsers returns one hydrated user per line of the file, in file
\* order, the user of the line's first field, the final line included.
C12_OneUserPerLine ==
    (/\ Opened /\ Returned /\ ~LookupFailed
     /\ \A i \in DOMAIN Lines(file) : Numeric(Lines(file)[i]))
    => /\ ret.err = "nil"
       /\ ret.users = [i \in DOMAIN Lines(file) |->
                          Profile(IdOfLine(Lines(file)[i]))]

\* C13: when some line of the file does not begin with a numeric
\* identifier, listUsers ends by returning a non-nil error and a nil user
\* list, and it has looked up no user for that line or a later one.
C13_MalformedLineAborts ==
    (/\ Opened /\ pc \in {"done", "panic", "printed"}
     /\ \E i \in DOMAIN Lines(file) : ~Numeric(Lines(file)[i]))
    => LET bad == CHOOSE i \in DOMAIN Lines(file) :
                     /\ ~Numeric(Lines(file)[i])
                     /\ \A j \in 1..(i - 1) : Numeric(Lines(file)[j])
       IN  /\ pc = "done"
           /\ ret.err # "nil"
           /\ ret.users = <<>>
           /\ Len(lookups) < bad

\* How often x occurs in the sequence q.
Count(q, x) == Cardinality({i \in DOMAIN q : q[i] = x})

\* C14: the names printRepos logs are the names it was handed, each as
\* often as it was handed in, in ascending lexicographic order, whatever
\* the order they came in.
C14_ReposSorted ==
    (fn = "printRepos" /\ pc = "printed")
    => /\ Len(content) = Len(repoNames)
       /\ \A x \in Names : Count(content, x) = Count(repoNames, x)
       /\ \A i, j \in DOMAIN content :
             i < j => content[i] = content[j] \/ LexLess(content[i], content[j])

C14_Witness ==
    /\ fn = "printRepos" /\ pc = "printed"
    /\ repoNames = << <<2, 1>>, <<1>>, <<1, 2>> >>
    /\ content = << <<1>>, <<1, 2>>, <<2, 1>> >>

\* C15: in a run of listIssues Users.GetByID is called at most once for an
\* ID and never for an ID that is in userCache, and userCache holds the IDs
\* whose lookup succeeded and no other.
C15_CacheSuppressesLookups ==
    fn = "listIssues"
    => /\ NoDup(IdsOf(lookups))
       /\ userCache = {lookups[i].id : i \in {j \in DOMAIN lookups : ~lookups[j].err}}
       /\ \A i \in DOMAIN lookups :
             lookups[i].id \notin {lookups[j].id : j \in 1..(i - 1)}

C15_Witness ==
    /\ fn = "listIssues" /\ Succeeded
    /\ Len(PagesServed) = 2 /\ Len(ItemsServed) = 3
    /\ Len(PagesServed[1].items) = 2
    /\ Len(lookups) = 1
    /\ userCache = {ItemsServed[1].id}

\* C16: once a listing call or a lookup has failed the function has
\* returned the error, the failed call is the last remote call of the run
\* and no step makes another: nothing is retried, skipped over or swallowed.
C16_NoRetryNoSwallow ==
    /\ [](  (FetchFailed \/ LookupFailed)
            => /\ Returned /\ ret.err # "nil"
               /\ \A i \in DOMAIN served  : served[i].err => i = Len(served)
               /\ \A i \in DOMAIN lookups : lookups[i].err => i = Len(lookups)
               /\ ~(FetchFailed /\ LookupFailed))
    /\ [][ (FetchFailed \/ LookupFailed)
            => /\ served' = served
               /\ lookups' = lookups
               /\ ret' = ret ]_vars

C16_Witness ==
    /\ fn = "listForkers" /\ Returned /\ ret.err = "lookup"
    /\ Len(lookups) = 2 /\ lookups[2].err
    /\ Len(page) = 3 /\ idx = 2
    /\ served[Len(served)].next # 0

\* The items the range loops have reached: those gone past and the one
\* whose lookup failed.
Attempted ==
    SubSeq(ItemsServed, 1, Len(Processed) + IF LookupFailed THEN 1 ELSE 0)

Paged == Functions \ {"listUsers"}

\* The run of a paged list function is over when it ends without a panic;
\* with weak fairness of the steps every run ends.
FairSpec   == Spec /\ WF_vars(Next)
Terminates == <>(pc \in {"done", "printed", "panic"})

\* C18: a run of a paged list function ends, and it ends by returning: with
\* the result, on a page whose NextPage is 0, or with an error.  A run that
\* can take no further step has returned, and one that returned without an
\* error has read the listing to the page whose NextPage is 0.
C18_EndsWithResultOrError ==
    fn \in Paged
    => /\ ~ENABLED Next => pc \in {"done", "printed"}
       /\ pc \in {"collect", "done", "printed"} => ret.err # "nil" \/ ReadToEnd

\* C19: the users and times listForkers, listWatchers and listStargazers
\* return have times empty or as long as users, so printUsers and
\* printUserIDs never read times[i] out of range, and they log a time in
\* every row, that of the row's user, or in none.
C19_TimesFitUsers ==
    fn \in {"listForkers", "listWatchers", "listStargazers"}
    => /\ pc # "panic"
       /\ (pc \in {"done", "printed"} /\ ret.err = "nil")
             => Len(ret.times) = 0 \/ Len(ret.times) = Len(ret.users)
       /\ pc = "printed"
             => /\ Len(content) = Len(ret.users)
                /\ \/ \A i \in DOMAIN content : content[i].time = <<>>
                   \/ \A i \in DOMAIN content : content[i].time = <<ret.times[i]>>
                /\ \A i \in DOMAIN content : content[i].id = ret.users[i].id

C19_Witness ==
    /\ fn = "listStargazers" /\ pc = "printed" /\ useTimeFilter
    /\ Len(ItemsServed) = 3 /\ Len(ret.users) = 2 /\ Len(content) = 2
    /\ content[1].time = <<ret.times[1]>> /\ content[2].time = <<ret.times[2]>>
    /\ ret.times[1] # ret.times[2]

====
